---- MODULE Spec2Model ----
(***************************************************************************)
(* Model of src/src/index.js (lines 1-230): the GitHub action that stages  *)
(* a package folder, compresses it to a .tar.gz and publishes it to the    *)
(* registry in three HTTP phases (start-publish, PUT transfer,             *)
(* complete-publish).                                                      *)
(*                                                                         *)
(* The program is one asynchronous flow (run) whose awaits are suspension  *)
(* points; the child copies started by Promise.all in compressFolder and   *)
(* the network are the concurrent parts.  The file system, the clock and   *)
(* the network are the environment: what the program reads from them is    *)
(* chosen when it reads it.                                                *)
(***************************************************************************)
EXTENDS Integers, Sequences, FiniteSets, TLC

\* ------------------------------------------------------------- bounds
\* Number of ordinary children of the source folder listed by readdir.
NItems == 2
\* Largest value of Date.now() (in ms ticks since the start of the model).
MaxClock == 1

\* ------------------------------------------------- program constants
\* index.js:103  512 * 1024 * 1024
MaxPackageSize == 536870912

\* compressFolder invocations that can exist; run() uses invocation 1.
Invs == {1, 2}

\* package_folder, seen from the process working directory:
\*   "sub"     an existing directory that does not contain the working dir
\*   "cwd"     the working directory itself (".")
\*   "above"   an existing directory that contains the working dir ("..")
\*   "missing" no such path, or a path that is not a directory
FolderKinds == {"sub", "cwd", "above", "missing"}

AccessTokens == {"", "tokA"}
VersionInputs == {"", "2.0.0"}
\* Which of contributor_email / contributor_name / contributor_url are set:
\* none of them, or all three.
ContributorFields == {"email", "name", "url"}
ContributorInputs == {{}, ContributorFields}

\* What fs.existsSync / fs.readFileSync find for package.json.
ManifestKinds == {"none", "ok", "badjson", "noname", "noversion"}

\* What is found at <folder>/README.md (LICENSE.md, CHANGELOG.md): nothing,
\* a file of zero bytes, a file with bytes, or a directory.
DocKinds == {"absent", "empty", "file", "dir"}
DocNames == {"readme", "license", "changelog"}

\* Byte lengths of the archive that the gate distinguishes.
ArchiveSizes == {MaxPackageSize - 1, MaxPackageSize, MaxPackageSize + 1}

\* HTTP status codes around the [200,300) window.
StatusCodes == {199, 200, 299, 300}

Phases == {"start", "put", "complete"}

\* The child of folderPath that contains the staging directory (the
\* .tmp-<ts> entry itself when folderPath is the working directory).
SelfItem == 0
ItemIds == 1..NItems

NoErr == "none"
NoTmp == -1

VARIABLES
    input,        \* the action's inputs (core.getInput)
    clock,        \* Date.now()
    runpc,        \* position of run()
    metadata,     \* run's metadata variable (NoMeta while undefined)
    file,         \* run's file: the archive returned by compressFolder
    thrown,       \* the error caught by run's catch
    failedMsg,    \* core.setFailed(message), NoErr when never called
    successInfo,  \* isPublic value logged by "Upload successful!"
    warnings,     \* core.warning calls
    firstError,   \* history: the first error raised in the run
    rootArchive,  \* <cwd>/<name>@<version>.tar.gz as seen by run's finally
    cfpc,         \* position of each compressFolder invocation
    folderPath,   \* compressFolder's folderPath
    tmpDir,       \* compressFolder's tmpDir (the timestamp in its name)
    copy,         \* per invocation: child -> state of its fsp.cp
    cfErr,        \* error raised in compressFolder's try block
    cfRet,        \* value of compressFolder's return statement
    cfOut,        \* the error compressFolder finally threw (NoErr: none)
    tmpExists,    \* disk: does .tmp-<n> (with package/) exist
    pkgEntries,   \* disk: children of .tmp-<n>/package
    archiveDisk,  \* disk: entries of the archive file in .tmp-<n>
    uppc,         \* position of uploadArchive
    docFs,        \* disk: what uploadArchive found at the three doc paths
    docs,         \* readmeBytes / licenseBytes / changelogBytes
    session,      \* uploadSession
    net,          \* per phase: the state of its HTTP exchange
    sent,         \* history: requests handed to https.request, in order
    upErr         \* the error uploadArchive threw

runVars == <<input, runpc, metadata, file, thrown, failedMsg, successInfo,
             warnings, firstError, rootArchive>>
cfVars == <<cfpc, folderPath, tmpDir, copy, cfErr, cfRet, cfOut>>
diskVars == <<tmpExists, pkgEntries, archiveDisk>>
upVars == <<uppc, docFs, docs, session, net, sent, upErr>>
vars == <<runVars, clock, cfVars, diskVars, upVars>>

NoMeta == [name |-> "", version |-> "", author |-> {}]
NoFile == [size |-> -1, entries |-> {}]
NoArchive == [present |-> FALSE, entries |-> {}]
NoSession == [kind |-> "unset", sessionId |-> "", url |-> ""]
NoDocs == [d \in DocNames |-> "null"]
UnseenDocs == [d \in DocNames |-> "unseen"]
IdleNet == [st |-> "unsent", status |-> 0, body |-> "none"]
IdleCopy == [it \in {} |-> "x"]

Inputs ==
    [folder : FolderKinds, accessToken : AccessTokens, isPublic : BOOLEAN,
     version : VersionInputs, contributor : ContributorInputs]

InitCommon ==
    /\ clock = 0
    /\ metadata = NoMeta
    /\ file = NoFile
    /\ thrown = NoErr
    /\ failedMsg = NoErr
    /\ successInfo = "none"
    /\ warnings = {}
    /\ firstError = NoErr
    /\ rootArchive = "unseen"
    /\ folderPath = [i \in Invs |-> "unset"]
    /\ tmpDir = [i \in Invs |-> NoTmp]
    /\ copy = [i \in Invs |-> IdleCopy]
    /\ cfErr = [i \in Invs |-> NoErr]
    /\ cfRet = [i \in Invs |-> NoFile]
    /\ cfOut = [i \in Invs |-> NoErr]
    /\ tmpExists = [n \in 0..MaxClock |-> FALSE]
    /\ pkgEntries = [n \in 0..MaxClock |-> {}]
    /\ archiveDisk = [n \in 0..MaxClock |-> NoArchive]
    /\ uppc = "idle"
    /\ docFs = UnseenDocs
    /\ docs = NoDocs
    /\ session = NoSession
    /\ net = [p \in Phases |-> IdleNet]
    /\ sent = <<>>
    /\ upErr = NoErr

\* State after construction: run() is about to read its inputs' effects.
Init ==
    /\ InitCommon
    /\ input \in Inputs
    /\ runpc = "getPackageJson"
    /\ cfpc = [i \in Invs |-> IF i = 1 THEN "idle" ELSE "unused"]

\* Date.now() advances between any two steps, or does not.  Only
\* compressFolder (line 42) reads it, so it is left alone once read by all.
Tick ==
    /\ clock < MaxClock
    /\ \E i \in Invs : cfpc[i] \in {"idle", "resolve"}
    /\ clock' = clock + 1
    /\ UNCHANGED <<runVars, cfVars, diskVars, upVars>>

\* An error raised inside run's try block: control goes to catch.  first is
\* the error that was raised first on the way (it differs from e when a
\* finally block replaced it).
Raise(first, e) ==
    /\ thrown' = e
    /\ firstError' = IF firstError = NoErr THEN first ELSE firstError
    /\ runpc' = "catch"

\* ------------------------------------------------------ getPackageJson
\* index.js:11-30.  fm is what is found at <folder>/package.json and rm at
\* ./package.json; the result is the error thrown, or NoErr.
getPackageJson(fm, rm) ==
    LET m == IF fm # "none" THEN fm ELSE rm
    IN  CASE m = "none" -> "'package.json' not found"
          [] m = "badjson" -> "JSON.parse failed"
          [] m = "noname" -> "'name' field in package.json is missing or invalid."
          [] m = "noversion" -> "'version' field in package.json is missing or invalid."
          [] OTHER -> NoErr

\* index.js:187-205: the overrides applied to the manifest.
applyOverrides(inp) ==
    [name |-> "pkg",
     version |-> IF inp.version # "" THEN inp.version ELSE "1.0.0",
     author |-> inp.contributor]

\* index.js:207
archiveNameOf(m) == <<m.name, "@", m.version, ".tar.gz">>

\* run, index.js:178-208: read the inputs, load the manifest, apply the
\* overrides and call compressFolder (invocation 1).
RunGetPackageJson ==
    /\ runpc = "getPackageJson"
    /\ \E fm \in ManifestKinds, rm \in ManifestKinds :
          /\ input.folder = "missing" => fm = "none"
          /\ input.folder = "cwd" => fm = rm
          /\ LET e == getPackageJson(fm, rm)
             IN  IF e # NoErr
                 THEN /\ Raise(e, e)
                      /\ UNCHANGED <<metadata, cfpc>>
                 ELSE /\ metadata' = applyOverrides(input)
                      /\ runpc' = "compressFolder"
                      /\ cfpc' = [cfpc EXCEPT ![1] = "resolve"]
                      /\ UNCHANGED <<thrown, firstError>>
    /\ UNCHANGED <<input, file, failedMsg, successInfo, warnings, rootArchive,
                   clock, folderPath, tmpDir, copy, cfErr, cfRet, cfOut,
                   diskVars, upVars>>

\* ------------------------------------------------------ compressFolder
\* index.js:34-40: resolve the folder, falling back to process.cwd().  The
\* working directory of a running process is a directory, so the throw of
\* line 38 is not reached.
resolveFolder(folder) == IF folder = "missing" THEN "cwd" ELSE folder

\* index.js:34-44: the synchronous start of compressFolder.
CfResolve(i) ==
    /\ cfpc[i] = "resolve"
    /\ folderPath' = [folderPath EXCEPT ![i] = resolveFolder(input.folder)]
    /\ tmpDir' = [tmpDir EXCEPT ![i] = clock]
    /\ cfpc' = [cfpc EXCEPT ![i] = "mkdir"]
    /\ UNCHANGED <<runVars, clock, copy, cfErr, cfRet, cfOut, diskVars, upVars>>

\* An error inside compressFolder's try block: control goes to finally.
CfFail(i, e) ==
    /\ cfErr' = [cfErr EXCEPT ![i] = e]
    /\ cfpc' = [cfpc EXCEPT ![i] = "finally"]

\* index.js:46: await fsp.mkdir(virtualRoot, { recursive: true })
CfMkdir(i) ==
    /\ cfpc[i] = "mkdir"
    /\ \E ok \in BOOLEAN :
          IF ok
          THEN /\ tmpExists' = [tmpExists EXCEPT ![tmpDir[i]] = TRUE]
               /\ cfpc' = [cfpc EXCEPT ![i] = "readdir"]
               /\ UNCHANGED cfErr
          ELSE /\ CfFail(i, "mkdir failed")
               /\ UNCHANGED tmpExists
    /\ UNCHANGED <<runVars, clock, folderPath, tmpDir, copy, cfRet, cfOut,
                   pkgEntries, archiveDisk, upVars>>

\* The children readdir lists: k ordinary children, and the child that holds
\* the staging directory when folderPath is the working directory (the
\* .tmp-<ts> entry made by line 46) or lies above it.
listedItems(fp, k, tmpThere) ==
    (1..k) \cup (IF fp = "above" \/ (fp = "cwd" /\ tmpThere)
                 THEN {SelfItem} ELSE {})

\* index.js:49-54: readdir, then items.map starts every child's fsp.cp.
CfReaddir(i) ==
    /\ cfpc[i] = "readdir"
    /\ \E ok \in BOOLEAN, k \in 0..NItems :
          IF ok
          THEN /\ copy' = [copy EXCEPT ![i] =
                     [it \in listedItems(folderPath[i], k, tmpExists[tmpDir[i]])
                        |-> "started"]]
               /\ cfpc' = [cfpc EXCEPT ![i] = "copying"]
               /\ UNCHANGED cfErr
          ELSE /\ CfFail(i, "readdir failed")
               /\ UNCHANGED copy
    /\ UNCHANGED <<runVars, clock, folderPath, tmpDir, cfRet, cfOut, diskVars,
                   upVars>>

\* (variant of cpRefuses: every child is copied)
cpRefuses_never(it) == FALSE

\* fsp.cp refuses to copy a directory into a subdirectory of itself
\* (ERR_FS_CP_EINVAL): the child that holds the staging directory.
cpRefuses(it) == it = SelfItem

\* index.js:53, first half of one child's fsp.cp: the checks of source and
\* destination, then the destination's parent directory is created when it
\* does not exist (mkdir recursive of virtualRoot).
CopyCheck(i, it) ==
    /\ it \in DOMAIN copy[i]
    /\ copy[i][it] = "started"
    /\ \E ok \in BOOLEAN :
          IF ok /\ ~cpRefuses(it)
          THEN /\ copy' = [copy EXCEPT ![i][it] = "ready"]
               /\ tmpExists' = [tmpExists EXCEPT ![tmpDir[i]] = TRUE]
          ELSE /\ copy' = [copy EXCEPT ![i][it] = "failed"]
               /\ UNCHANGED tmpExists
    /\ UNCHANGED <<runVars, clock, cfpc, folderPath, tmpDir, cfErr, cfRet,
                   cfOut, pkgEntries, archiveDisk, upVars>>

\* index.js:53, second half of one child's fsp.cp: the child is written under
\* virtualRoot, which fails when virtualRoot is gone.
CopyWrite(i, it) ==
    /\ it \in DOMAIN copy[i]
    /\ copy[i][it] = "ready"
    /\ \E ok \in BOOLEAN :
          IF ok /\ tmpExists[tmpDir[i]]
          THEN /\ copy' = [copy EXCEPT ![i][it] = "done"]
               /\ pkgEntries' = [pkgEntries EXCEPT ![tmpDir[i]] = @ \cup {it}]
          ELSE /\ copy' = [copy EXCEPT ![i][it] = "failed"]
               /\ UNCHANGED pkgEntries
    /\ UNCHANGED <<runVars, clock, cfpc, folderPath, tmpDir, cfErr, cfRet,
                   cfOut, tmpExists, archiveDisk, upVars>>

\* (variant of allSettled: fulfilled with the first child that is done, as
\* Promise.any or Promise.race would be)
allSettled_any(c) ==
    IF \E it \in DOMAIN c : c[it] = "failed" THEN "rejected"
    ELSE IF DOMAIN c = {} \/ \E it \in DOMAIN c : c[it] = "done" THEN "fulfilled"
    ELSE "pending"

\* Promise.all over the child copies: rejected as soon as one has failed,
\* fulfilled when all are done, pending otherwise.
allSettled(c) ==
    IF \E it \in DOMAIN c : c[it] = "failed" THEN "rejected"
    ELSE IF \A it \in DOMAIN c : c[it] = "done" THEN "fulfilled"
    ELSE "pending"

\* index.js:50-56: compressFolder resumes after await Promise.all(...).
CfJoin(i) ==
    /\ cfpc[i] = "copying"
    /\ allSettled(copy[i]) # "pending"
    /\ IF allSettled(copy[i]) = "rejected"
       THEN CfFail(i, "copy failed")
       ELSE /\ cfpc' = [cfpc EXCEPT ![i] = "compress"]
            /\ UNCHANGED cfErr
    /\ UNCHANGED <<runVars, clock, folderPath, tmpDir, copy, cfRet, cfOut,
                   diskVars, upVars>>

\* index.js:58: await compressing.tgz.compressDir(virtualRoot, archiveDir)
CfCompress(i) ==
    /\ cfpc[i] = "compress"
    /\ \E ok \in BOOLEAN :
          IF ok /\ tmpExists[tmpDir[i]]
          THEN /\ archiveDisk' = [archiveDisk EXCEPT ![tmpDir[i]] =
                     [present |-> TRUE, entries |-> pkgEntries[tmpDir[i]]]]
               /\ cfpc' = [cfpc EXCEPT ![i] = "read"]
               /\ UNCHANGED cfErr
          ELSE /\ CfFail(i, "compress failed")
               /\ UNCHANGED archiveDisk
    /\ UNCHANGED <<runVars, clock, folderPath, tmpDir, copy, cfRet, cfOut,
                   tmpExists, pkgEntries, upVars>>

\* index.js:60: return fs.readFileSync(archiveDir)
CfRead(i) ==
    /\ cfpc[i] = "read"
    /\ \E sz \in ArchiveSizes :
          IF archiveDisk[tmpDir[i]].present
          THEN /\ cfRet' = [cfRet EXCEPT ![i] =
                     [size |-> sz, entries |-> archiveDisk[tmpDir[i]].entries]]
               /\ cfpc' = [cfpc EXCEPT ![i] = "finally"]
               /\ UNCHANGED cfErr
          ELSE /\ CfFail(i, "read failed")
               /\ UNCHANGED cfRet
    /\ UNCHANGED <<runVars, clock, folderPath, tmpDir, copy, cfOut, diskVars,
                   upVars>>

\* index.js:61-63: finally { await fsp.rm(tmpDir, recursive, force) }.  When
\* rm rejects, its error is what compressFolder throws.
CfFinally(i) ==
    /\ cfpc[i] = "finally"
    /\ \E ok \in BOOLEAN :
          IF ok
          THEN /\ tmpExists' = [tmpExists EXCEPT ![tmpDir[i]] = FALSE]
               /\ pkgEntries' = [pkgEntries EXCEPT ![tmpDir[i]] = {}]
               /\ archiveDisk' = [archiveDisk EXCEPT ![tmpDir[i]] = NoArchive]
               /\ cfOut' = [cfOut EXCEPT ![i] = cfErr[i]]
               /\ cfpc' = [cfpc EXCEPT ![i] =
                     IF cfErr[i] = NoErr THEN "returned" ELSE "thrown"]
          ELSE /\ cfOut' = [cfOut EXCEPT ![i] = "rm failed"]
               /\ cfpc' = [cfpc EXCEPT ![i] = "thrown"]
               /\ UNCHANGED diskVars
    /\ UNCHANGED <<runVars, clock, folderPath, tmpDir, copy, cfErr, cfRet,
                   upVars>>

\* run, index.js:208-209: await compressFolder settles; on success
\* uploadArchive is called.
RunAfterCompress ==
    /\ runpc = "compressFolder"
    /\ cfpc[1] \in {"returned", "thrown"}
    /\ IF cfpc[1] = "thrown"
       THEN /\ Raise(IF cfErr[1] # NoErr THEN cfErr[1] ELSE cfOut[1], cfOut[1])
            /\ UNCHANGED <<file, uppc>>
       ELSE /\ file' = cfRet[1]
            /\ runpc' = "uploadArchive"
            /\ uppc' = "gate"
            /\ UNCHANGED <<thrown, firstError>>
    /\ UNCHANGED <<input, metadata, failedMsg, successInfo, warnings,
                   rootArchive, clock, cfVars, diskVars, docFs, docs, session,
                   net, sent, upErr>>

\* ------------------------------------------------------- uploadArchive
\* uploadArchive rejects with e.
UpFail(e) ==
    /\ upErr' = e
    /\ uppc' = "failed"

\* (variant of tooLarge: the boundary value is refused)
tooLarge_inclusive(size) == size >= MaxPackageSize

\* index.js:103: the size gate.
tooLarge(size) == size > MaxPackageSize

\* index.js:110-112: fs.existsSync(p) ? fs.readFileSync(p) : null.  The
\* result is "null", or the Buffer read ("empty" for zero bytes); reading a
\* directory throws.
readDoc(kind) ==
    CASE kind = "absent" -> "null"
      [] kind = "empty" -> "empty"
      [] kind = "file" -> "bytes"
      [] OTHER -> "throws"

readDocs(fs) == [d \in DocNames |-> readDoc(fs[d])]

\* (variant of UpValidate: the companion documents are not read here)
UpValidate_noDocs ==
    /\ uppc = "gate"
    /\ IF tooLarge(file.size)
       THEN UpFail("The uploaded package exceeds the maximum allowed size of 512 MB.")
       ELSE /\ uppc' = "start"
            /\ UNCHANGED upErr
    /\ UNCHANGED <<runVars, clock, cfVars, diskVars, docFs, docs, session, net,
                   sent>>

\* index.js:103-112: the size gate, then the three companion documents are
\* read from the source folder.
UpValidate ==
    /\ uppc = "gate"
    /\ IF tooLarge(file.size)
       THEN /\ UpFail("The uploaded package exceeds the maximum allowed size of 512 MB.")
            /\ UNCHANGED <<docFs, docs>>
       ELSE \E fs \in [DocNames -> DocKinds] :
               /\ docFs' = fs
               /\ IF \E d \in DocNames : readDocs(fs)[d] = "throws"
                  THEN /\ UpFail("EISDIR: illegal operation on a directory, read")
                       /\ UNCHANGED docs
                  ELSE /\ docs' = readDocs(fs)
                       /\ uppc' = "start"
                       /\ UNCHANGED upErr
    /\ UNCHANGED <<runVars, clock, cfVars, diskVars, session, net, sent>>

\* (variant of authHeader: no request is authenticated)
authHeader_none(accessToken) == <<>>

\* index.js:70-77: the headers of a request: Authorization when an access
\* token is passed and is not empty, then the caller's headers.
authHeader(accessToken) ==
    IF accessToken # "" THEN <<"Bearer", accessToken>> ELSE <<>>

\* (variant of isSuccess: the upper end of the window is let in)
isSuccess_inclusive(status) == status >= 200 /\ status <= 300

\* index.js:82: res.statusCode >= 200 && res.statusCode < 300
isSuccess(status) == status >= 200 /\ status < 300

\* index.js:114: the checksum is a function of the archive bytes.
checksumOf(f) == <<"sha256", f.size, f.entries>>

\* index.js:118-122: the start-publish form.
startPublishForm(f, isPublic, m) ==
    [checksumSha256 |-> checksumOf(f), packageSize |-> f.size,
     metadata |-> m, isPublic |-> IF isPublic THEN "true" ELSE "false"]

\* index.js:64-99: sendHttpRequest hands a request to https.request.
Request(phase, method, url, auth, headers, body) ==
    [phase |-> phase, method |-> method, url |-> url, auth |-> auth,
     headers |-> headers, body |-> body]

StartUrl == "https://registry.pckgs.io/packages/start-publish"
CompleteUrl == "https://registry.pckgs.io/packages/complete-publish"

\* index.js:114-135: checksum, start-publish form, the request is sent and
\* uploadArchive awaits its promise.
UpStartPublish ==
    /\ uppc = "start"
    /\ sent' = Append(sent, Request("start", "POST", StartUrl,
                   authHeader(input.accessToken), "multipart/form-data",
                   startPublishForm(file, input.isPublic, metadata)))
    /\ net' = [net EXCEPT !["start"].st = "inflight"]
    /\ uppc' = "awaitStart"
    /\ UNCHANGED <<runVars, clock, cfVars, diskVars, docFs, docs, session, upErr>>

\* The bodies a server can answer start-publish with, after JSON.parse (or
\* the catch of line 85 for a body that is not JSON):
\*   "both"     a JSON object with sessionId and url
\*   "urlOnly"  a JSON object with url and no sessionId
\*   "sidOnly"  a JSON object with sessionId and no url
\*   "neither"  a JSON object (or number, or boolean) with neither
\*   "null"     the JSON value null
\*   "text"     not JSON: the data string itself
SessionBodies ==
    {[kind |-> "both", sessionId |-> "s1", url |-> "https://store/u1"],
     [kind |-> "both", sessionId |-> "s2", url |-> "https://store/u2"],
     [kind |-> "urlOnly", sessionId |-> "undefined", url |-> "https://store/u1"],
     [kind |-> "sidOnly", sessionId |-> "s1", url |-> "undefined"],
     [kind |-> "neither", sessionId |-> "undefined", url |-> "undefined"],
     [kind |-> "null", sessionId |-> "undefined", url |-> "undefined"],
     [kind |-> "text", sessionId |-> "undefined", url |-> "undefined"]}

TextBody == [kind |-> "text", sessionId |-> "undefined", url |-> "undefined"]

\* The body matters to the program only where it is used as the session: in
\* a successful answer to start-publish (line 129).
Bodies(p, status) ==
    IF p = "start" /\ isSuccess(status) THEN SessionBodies ELSE {TextBody}

\* index.js:78-79: the response callback: status line and headers arrived.
NetHeaders(p) ==
    /\ net[p].st = "inflight"
    /\ \E status \in StatusCodes : \E b \in Bodies(p, status) :
          net' = [net EXCEPT ![p] = [st |-> "headers", status |-> status, body |-> b]]
    /\ UNCHANGED <<runVars, clock, cfVars, diskVars, uppc, docFs, docs, session,
                   sent, upErr>>

\* index.js:81-91: the response's 'end' event settles the promise.
NetEnd(p) ==
    /\ net[p].st = "headers"
    /\ net' = [net EXCEPT ![p].st = "ended"]
    /\ UNCHANGED <<runVars, clock, cfVars, diskVars, uppc, docFs, docs, session,
                   sent, upErr>>

\* index.js:93: req.on('error', reject): a socket error, before the response
\* or while it is being received.
NetError(p) ==
    /\ net[p].st \in {"inflight", "headers"}
    /\ net' = [net EXCEPT ![p].st = "error"]
    /\ UNCHANGED <<runVars, clock, cfVars, diskVars, uppc, docFs, docs, session,
                   sent, upErr>>

\* The server closes the connection after the response's headers: no 'end'
\* event comes, the request emits no 'error', and nothing listens for the
\* response's 'aborted' or 'error'.
NetAbort(p) ==
    /\ net[p].st = "headers"
    /\ net' = [net EXCEPT ![p].st = "aborted"]
    /\ UNCHANGED <<runVars, clock, cfVars, diskVars, uppc, docFs, docs, session,
                   sent, upErr>>

\* (variant of promiseOf: the 'end' handler resolves whatever the status)
promiseOf_resolveAlways(n) ==
    CASE n.st = "ended" -> "fulfilled"
      [] n.st = "error" -> "rejected"
      [] OTHER -> "pending"

\* (variant of promiseOf: resolved in the response callback, before 'end')
promiseOf_early(n) ==
    CASE n.st \in {"headers", "ended"} /\ isSuccess(n.status) -> "fulfilled"
      [] n.st = "ended" -> "rejected"
      [] n.st = "error" -> "rejected"
      [] OTHER -> "pending"

\* The promise of sendHttpRequest for phase p: index.js:82-93.
promiseOf(n) ==
    CASE n.st = "ended" /\ isSuccess(n.status) -> "fulfilled"
      [] n.st = "ended" -> "rejected"
      [] n.st = "error" -> "rejected"
      [] OTHER -> "pending"

\* index.js:89, 93: the error the promise is rejected with (the response
\* data that follows the status in the message is left out).
requestError(n) ==
    IF n.st = "error" THEN "transport error"
    ELSE "Request failed: " \o ToString(n.status)

\* index.js:67: new URL(url) throws for a url that is not a string URL.
validUrl(url) == url # "undefined"

\* (variant of putRequest: the PUT goes to a fixed storage url)
putRequest_fixedUrl(sess, f) ==
    Request("put", "PUT", "https://store/u1", authHeader(""),
            [contentType |-> "application/gzip", contentLength |-> f.size], f)

\* (variant of putRequest: the access token is passed along, as it is for
\* the two registry requests)
putRequest_withToken(sess, f) ==
    Request("put", "PUT", sess.url, authHeader(input.accessToken),
            [contentType |-> "application/gzip", contentLength |-> f.size], f)

\* index.js:139-147: the Transfer request: a PUT of the archive to the
\* session's url; no accessToken is passed to sendHttpRequest.
putRequest(sess, f) ==
    Request("put", "PUT", sess.url, authHeader(""),
            [contentType |-> "application/gzip", contentLength |-> f.size], f)

\* index.js:137-147: start-publish settled; the session is logged and the
\* archive is PUT to the session's url.
UpTransfer ==
    /\ uppc = "awaitStart"
    /\ promiseOf(net["start"]) # "pending"
    /\ IF promiseOf(net["start"]) = "rejected"
       THEN /\ UpFail(requestError(net["start"]))
            /\ UNCHANGED <<session, sent, net>>
       ELSE /\ session' = net["start"].body
            /\ IF net["start"].body.kind = "null"
               THEN /\ UpFail("TypeError: cannot read properties of null")
                    /\ UNCHANGED <<sent, net>>
               ELSE IF ~validUrl(net["start"].body.url)
               THEN /\ UpFail("TypeError: Invalid URL")
                    /\ UNCHANGED <<sent, net>>
               ELSE /\ sent' = Append(sent, putRequest(net["start"].body, file))
                    /\ net' = [net EXCEPT !["put"].st = "inflight"]
                    /\ uppc' = "awaitPut"
                    /\ UNCHANGED upErr
    /\ UNCHANGED <<runVars, clock, cfVars, diskVars, docFs, docs>>

\* (variant of hasPart: a Buffer of zero bytes counts as no document)
hasPart_nonEmpty(bytes) == bytes = "bytes"

\* index.js:151-156: a part is set when its bytes are truthy; a Buffer is an
\* object, so it is truthy also when it holds zero bytes.
hasPart(bytes) == bytes # "null"

\* index.js:149-156: the complete-publish form.
completePublishForm(sess, d) ==
    [sessionId |-> sess.sessionId,
     parts |-> {n \in DocNames : hasPart(d[n])}]

\* index.js:149-172: the PUT settled; the complete-publish form is built and
\* sent.
UpCompletePublish ==
    /\ uppc = "awaitPut"
    /\ promiseOf(net["put"]) # "pending"
    /\ IF promiseOf(net["put"]) = "rejected"
       THEN /\ UpFail(requestError(net["put"]))
            /\ UNCHANGED <<sent, net>>
       ELSE /\ sent' = Append(sent, Request("complete", "POST", CompleteUrl,
                          authHeader(input.accessToken), "multipart/form-data",
                          completePublishForm(session, docs)))
            /\ net' = [net EXCEPT !["complete"].st = "inflight"]
            /\ uppc' = "awaitComplete"
            /\ UNCHANGED upErr
    /\ UNCHANGED <<runVars, clock, cfVars, diskVars, docFs, docs, session>>

\* (variant of UpFinish: a rejected complete-publish is sent once more)
UpFinish_retry ==
    /\ uppc = "awaitComplete"
    /\ promiseOf(net["complete"]) # "pending"
    /\ IF promiseOf(net["complete"]) = "rejected"
       THEN IF Len(sent) < 4
            THEN /\ sent' = Append(sent, sent[3])
                 /\ net' = [net EXCEPT !["complete"] =
                               [IdleNet EXCEPT !.st = "inflight"]]
                 /\ UNCHANGED <<uppc, upErr>>
            ELSE /\ UpFail(requestError(net["complete"]))
                 /\ UNCHANGED <<sent, net>>
       ELSE /\ uppc' = "done"
            /\ UNCHANGED <<upErr, sent, net>>
    /\ UNCHANGED <<runVars, clock, cfVars, diskVars, docFs, docs, session>>

\* index.js:166-173: complete-publish settled; uploadArchive returns.
UpFinish ==
    /\ uppc = "awaitComplete"
    /\ promiseOf(net["complete"]) # "pending"
    /\ IF promiseOf(net["complete"]) = "rejected"
       THEN UpFail(requestError(net["complete"]))
       ELSE /\ uppc' = "done"
            /\ UNCHANGED upErr
    /\ UNCHANGED <<runVars, clock, cfVars, diskVars, docFs, docs, session,
                   net, sent>>

\* ------------------------------------------------------------ run, end
\* index.js:209-211: await uploadArchive settles.
RunAfterUpload ==
    /\ runpc = "uploadArchive"
    /\ uppc \in {"done", "failed"}
    /\ IF uppc = "failed"
       THEN /\ Raise(upErr, upErr)
            /\ UNCHANGED successInfo
       ELSE /\ successInfo' = IF input.isPublic THEN "true" ELSE "false"
            /\ runpc' = "finally"
            /\ UNCHANGED <<thrown, firstError>>
    /\ UNCHANGED <<input, metadata, file, failedMsg, warnings, rootArchive,
                   clock, cfVars, diskVars, upVars>>

\* index.js:212-213: catch (error) { core.setFailed(error.message) }
RunCatch ==
    /\ runpc = "catch"
    /\ failedMsg' = thrown
    /\ runpc' = "finally"
    /\ UNCHANGED <<input, metadata, file, thrown, successInfo, warnings,
                   firstError, rootArchive, clock, cfVars, diskVars, upVars>>

\* index.js:214-227: finally: the archive file <cwd>/<name>@<version>.tar.gz
\* is unlinked when it exists; a failure of the unlink is a warning.
RunFinally ==
    /\ runpc = "finally"
    /\ IF metadata # NoMeta /\ metadata.name # "" /\ metadata.version # ""
       THEN \E seen \in {"absent", "removed", "stuck"} :
               /\ rootArchive' = seen
               /\ warnings' = IF seen = "stuck"
                              THEN warnings \cup {"Failed to clean up archive"}
                              ELSE warnings
       ELSE UNCHANGED <<rootArchive, warnings>>
    /\ runpc' = "end"
    /\ UNCHANGED <<input, metadata, file, thrown, failedMsg, successInfo,
                   firstError, clock, cfVars, diskVars, upVars>>

\* ------------------------------------------------------ specifications
\* One run of the action.  Date.now() is read once (line 42), so its value
\* stays the one of Init.
Next ==
    \/ RunGetPackageJson
    \/ CfResolve(1)
    \/ CfMkdir(1)
    \/ CfReaddir(1)
    \/ \E it \in {SelfItem} \cup ItemIds : CopyCheck(1, it)
    \/ \E it \in {SelfItem} \cup ItemIds : CopyWrite(1, it)
    \/ CfJoin(1)
    \/ CfCompress(1)
    \/ CfRead(1)
    \/ CfFinally(1)
    \/ RunAfterCompress
    \/ UpValidate
    \/ UpStartPublish
    \/ \E p \in Phases : NetHeaders(p)
    \/ \E p \in Phases : NetEnd(p)
    \/ \E p \in Phases : NetError(p)
    \/ \E p \in Phases : NetAbort(p)
    \/ UpTransfer
    \/ UpCompletePublish
    \/ UpFinish
    \/ RunAfterUpload
    \/ RunCatch
    \/ RunFinally

Spec == Init /\ [][Next]_vars

\* Two invocations of compressFolder in one working directory, on the same
\* folder, with the clock running.
InitConc ==
    /\ InitCommon
    /\ input \in {inp \in Inputs : /\ inp.accessToken = "" /\ ~inp.isPublic
                                   /\ inp.version = "" /\ inp.contributor = {}}
    /\ runpc = "detached"
    /\ cfpc = [i \in Invs |-> "resolve"]

NextConc ==
    \/ Tick
    \/ \E i \in Invs : CfResolve(i)
    \/ \E i \in Invs : CfMkdir(i)
    \/ \E i \in Invs : CfReaddir(i)
    \/ \E i \in Invs : \E it \in {SelfItem} \cup ItemIds : CopyCheck(i, it)
    \/ \E i \in Invs : \E it \in {SelfItem} \cup ItemIds : CopyWrite(i, it)
    \/ \E i \in Invs : CfJoin(i)
    \/ \E i \in Invs : CfCompress(i)
    \/ \E i \in Invs : CfRead(i)
    \/ \E i \in Invs : CfFinally(i)

SpecConc == InitConc /\ [][NextConc]_vars

\* ------------------------------------------------------------- claims
SentPhases == {sent[k].phase : k \in 1..Len(sent)}

\* The exchange of phase p ended with a status outside [200,300), or with a
\* transport error.
FailedExchange(p) ==
    \/ net[p].st = "error"
    \/ net[p].st = "ended" /\ (net[p].status < 200 \/ net[p].status >= 300)

\* C1: if the start-publish request ends with a status outside [200,300) or
\* with a transport error, no Transfer (PUT) request and no complete-publish
\* request is ever sent, and the invocation ends in failure.
C1_StartFailureAborts ==
    FailedExchange("start") =>
        /\ SentPhases = {"start"}
        /\ net["put"].st = "unsent" /\ net["complete"].st = "unsent"
        /\ uppc \in {"awaitStart", "failed"}
        /\ successInfo = "none"
        /\ runpc = "end" => failedMsg # NoErr

C1_Witness ==
    /\ net["start"].st = "ended" /\ net["start"].status = 300
    /\ runpc = "end"
    /\ failedMsg = "Request failed: 300"

\* C2: if the Transfer (PUT) request ends with a status outside [200,300) or
\* with a transport error, the complete-publish request is never sent, and
\* the invocation ends in failure.
C2_TransferFailureAborts ==
    FailedExchange("put") =>
        /\ SentPhases = {"start", "put"}
        /\ net["complete"].st = "unsent"
        /\ uppc \in {"awaitPut", "failed"}
        /\ successInfo = "none"
        /\ runpc = "end" => failedMsg # NoErr

C2_Witness ==
    /\ net["put"].st = "ended" /\ net["put"].status = 199
    /\ runpc = "end"
    /\ failedMsg = "Request failed: 199"

\* A request has been handed to https.request and its response has neither
\* ended nor failed.
InFlight(p) == net[p].st \in {"inflight", "headers"}

\* C3: the three upload phases are strictly sequential: the Transfer request
\* is not started before the start-publish response has ended, the
\* complete-publish request not before the Transfer response has ended, and
\* at no time are two of the three requests in flight together.
C3_PhasesSequential ==
    /\ Cardinality({p \in Phases : InFlight(p)}) <= 1
    /\ net["put"].st # "unsent" => net["start"].st = "ended"
    /\ net["complete"].st # "unsent" =>
          net["start"].st = "ended" /\ net["put"].st = "ended"
    /\ \A k \in 1..Len(sent) : sent[k].phase = <<"start", "put", "complete">>[k]

C3_Witness ==
    /\ net["complete"].st = "headers"
    /\ Len(sent) = 3

DocIsDir == \E d \in DocNames : docFs[d] = "dir"

\* C4 as stated: an archive over 512 MiB fails with no HTTP request sent; an
\* archive of at most 512 MiB (the boundary value included) proceeds to send
\* the start-publish request.
C4_SizeGateAsStated ==
    /\ file.size > MaxPackageSize => sent = <<>> /\ uppc \in {"gate", "failed"}
    /\ (uppc \in {"done", "failed"} /\ file.size <= MaxPackageSize) =>
          "start" \in SentPhases

\* C4 (amended): an archive over 512 MiB fails with no HTTP request sent; an
\* archive of at most 512 MiB (the boundary value included) passes the gate,
\* and the start-publish request is sent unless reading a companion
\* document, which comes between the gate and the request, throws.
C4_SizeGate ==
    /\ file.size > MaxPackageSize =>
          /\ sent = <<>>
          /\ uppc \in {"gate", "failed"}
          /\ docFs = UnseenDocs
    /\ (uppc \notin {"idle", "gate"} /\ file.size <= MaxPackageSize) =>
          /\ docFs # UnseenDocs
          /\ uppc = "start" => ~DocIsDir /\ sent = <<>>
          /\ uppc \notin {"start", "failed"} => "start" \in SentPhases
          /\ uppc = "failed" => ("start" \in SentPhases <=> ~DocIsDir)

C4_Witness ==
    /\ file.size = MaxPackageSize
    /\ Len(sent) = 1 /\ sent[1].phase = "start"
    /\ sent[1].body.packageSize = MaxPackageSize

\* C5: after compressFolder has returned or thrown, its staging directory
\* does not exist on disk, on every exit path (here: on every exit path on
\* which the rm of the finally block itself succeeded).
C5_StagingRemoved ==
    (cfpc[1] \in {"returned", "thrown"} /\ cfOut[1] # "rm failed") =>
        ~tmpExists[tmpDir[1]]

\* C6: a failure while removing the staged temporary resources only produces
\* a warning: the failure the run reports is the error raised first, never
\* the error of the removal.
C6_CleanupFailureOnlyWarns ==
    /\ failedMsg # "rm failed"
    /\ failedMsg # NoErr => failedMsg = firstError

CompressionBegun(i) ==
    \/ cfpc[i] \in {"compress", "read", "returned"}
    \/ cfErr[i] \in {"compress failed", "read failed"}
    \/ cfRet[i] # NoFile

\* C8: compression begins only after every child copy started by the
\* fan-out has completed successfully; if any child copy fails, compression
\* is never started and no archive bytes are returned.
C8_JoinBarrier ==
    /\ CompressionBegun(1) => \A it \in DOMAIN copy[1] : copy[1][it] = "done"
    /\ (\E it \in DOMAIN copy[1] : copy[1][it] = "failed") =>
          /\ ~CompressionBegun(1)
          /\ file = NoFile
          /\ ~archiveDisk[tmpDir[1]].present

C8_Witness ==
    /\ cfpc[1] = "compress"
    /\ DOMAIN copy[1] = 1..NItems
    /\ pkgEntries[tmpDir[1]] = 1..NItems

\* Invocation i has made its staging directory's name and has not yet left.
Running(i) ==
    cfpc[i] \in {"mkdir", "readdir", "copying", "compress", "read", "finally"}

\* C9: two concurrent invocations of compressFolder in the same working
\* directory never use the same staging directory.
C9_StagingExclusive ==
    \A i \in Invs : \A j \in Invs :
        (i # j /\ Running(i) /\ Running(j)) => tmpDir[i] # tmpDir[j]

DocPresent(d) == docFs[d] \in {"empty", "file"}

\* C10: for each of README.md, LICENSE.md and CHANGELOG.md the
\* complete-publish form contains the corresponding part if and only if the
\* file is present under the source folder, and a missing file never makes
\* the upload fail: whatever is missing, the start-publish request goes out.
C10_DocsOptional ==
    /\ \A k \in 1..Len(sent) : sent[k].phase = "complete" =>
          \A d \in DocNames : d \in sent[k].body.parts <=> DocPresent(d)
    /\ (docFs # UnseenDocs /\ ~DocIsDir) =>
          /\ upErr # "EISDIR: illegal operation on a directory, read"
          /\ uppc \in {"done", "failed"} => "start" \in SentPhases

C10_Witness ==
    /\ Len(sent) = 3
    /\ sent[3].body.parts = {"readme", "changelog"}
    /\ docFs["readme"] = "empty" /\ docFs["license"] = "absent"
    /\ uppc = "done"

C12_NoRetry ==
    /\ Len(sent) <= 3
    /\ \A p \in {"start", "put", "complete"} :
          Cardinality({k \in 1..Len(sent) : sent[k].phase = p}) <= 1

C12_Witness ==
    /\ Len(sent) = 3
    /\ net["complete"].st = "ended"
    /\ net["complete"].status = 300
    /\ uppc = "failed"
    /\ runpc = "end"

C14_OutcomeReporting ==
    runpc = "end" =>
        /\ (failedMsg # NoErr) <=> (firstError # NoErr)
        /\ failedMsg # NoErr => failedMsg = firstError
        /\ (successInfo # "none") <=> (uppc = "done")
        /\ successInfo # "none" =>
              /\ Len(sent) = 3
              /\ successInfo = sent[1].body.isPublic
        /\ ~(failedMsg # NoErr /\ successInfo # "none")

\* C15: when a non-empty version input is given, the run does not fail
\* because package.json lacks a version, and the given version is the one
\* used in the archive name and in the metadata sent to start-publish.
C15_VersionInputSuffices ==
    input.version # "" =>
        /\ thrown # "'version' field in package.json is missing or invalid."
        /\ failedMsg # "'version' field in package.json is missing or invalid."
        /\ metadata # NoMeta =>
              /\ metadata.version = input.version
              /\ archiveNameOf(metadata) =
                    <<"pkg", "@", input.version, ".tar.gz">>
        /\ \A k \in 1..Len(sent) :
              sent[k].phase = "start" =>
                 sent[k].body.metadata.version = input.version

\* C16: for every existing source directory, wherever it lies relative to
\* the working directory, compressFolder succeeds (its copy step fails only
\* when the copy of one of the directory's own children failed) and the
\* archive returned holds exactly the children listed, nothing of the
\* staging directory among them.
C16_CompressAnyExistingFolder ==
    input.folder # "missing" =>
        /\ cfErr[1] = "copy failed" =>
              \E it \in DOMAIN copy[1] \cap ItemIds : copy[1][it] = "failed"
        /\ cfpc[1] = "returned" =>
              /\ cfRet[1].entries = DOMAIN copy[1]
              /\ SelfItem \notin cfRet[1].entries

\* C17: uploadArchive is never left waiting for ever: while it awaits the
\* promise of a request, something can still happen (the network delivers
\* an event, or the promise is settled and uploadArchive resumes).
C17_UploadSettles ==
    uppc \in {"awaitStart", "awaitPut", "awaitComplete"} => ENABLED Next

\* C18: if the start-publish response has a 2xx status but is not a JSON
\* object with both a sessionId and a url, uploadArchive fails: no Transfer
\* request and no complete-publish request is sent.
C18_MalformedSessionFails ==
    (/\ net["start"].st = "ended"
     /\ net["start"].status >= 200 /\ net["start"].status < 300
     /\ net["start"].body.kind # "both") =>
        /\ \A k \in 1..Len(sent) : sent[k].phase = "start"
        /\ uppc \in {"awaitStart", "failed"}

\* C19 as stated: the companion documents are read after the Transfer phase
\* has completed and before complete-publish is sent, so a failure of
\* reading them occurs only after start-publish and Transfer have succeeded.
C19_DocsAfterTransferAsStated ==
    /\ docFs # UnseenDocs =>
          /\ Len(sent) >= 2
          /\ net["put"].st = "ended"
          /\ net["put"].status >= 200 /\ net["put"].status < 300
    /\ upErr = "EISDIR: illegal operation on a directory, read" =>
          Len(sent) = 2

\* C19: the companion documents are read after the archive is built and has
\* passed the size check and before start-publish is sent, so a failure of
\* reading them occurs before any request is sent.
C19_DocsBeforeStart ==
    /\ sent # <<>> => docFs # UnseenDocs /\ ~DocIsDir
    /\ docFs # UnseenDocs => file # NoFile /\ file.size <= MaxPackageSize
    /\ upErr = "EISDIR: illegal operation on a directory, read" =>
          /\ sent = <<>>
          /\ DocIsDir
          /\ \A p \in Phases : net[p].st = "unsent"

C19_Witness ==
    /\ upErr = "EISDIR: illegal operation on a directory, read"
    /\ uppc = "failed"
    /\ sent = <<>>
    /\ runpc = "end"
    /\ failedMsg = "EISDIR: illegal operation on a directory, read"

\* C20: the Transfer PUT never carries an Authorization header: it is
\* made of the url the session gives and of the archive only, so it is the
\* same request whatever the access token is.
C20_TokenConfined ==
    \A k \in 1..Len(sent) :
       sent[k].phase = "put" =>
          sent[k] = [phase |-> "put", method |-> "PUT",
                     url |-> net["start"].body.url, auth |-> <<>>,
                     headers |-> [contentType |-> "application/gzip",
                                  contentLength |-> cfRet[1].size],
                     body |-> cfRet[1]]

C20_Witness ==
    /\ input.accessToken = "tokA"
    /\ Len(sent) >= 2
    /\ sent[1].auth = <<"Bearer", "tokA">>
    /\ sent[2].phase = "put"
    /\ sent[2].auth = <<>>
    /\ net["put"].st = "ended"

====
